---- MODULE Spec2Model ----
(***************************************************************************)
(* Verification model of the xauusd frontend core:                         *)
(*   - tradeApi.pollOrderUntilComplete        (apis/price.ts)              *)
(*   - Order.vue: pollOrderStatus, handleTradeSuccess,                     *)
(*     startPollingProcessingOrders, fetchTradingHistory, auth watcher     *)
(*   - usePrice.streamSymbol                  (apis/price.ts)              *)
(*   - HomeView.vue: price watchers and the 500 ms heartbeat               *)
(* JavaScript runs handlers to completion on one event loop, so every      *)
(* action below is one handler run up to its next await.                   *)
(***************************************************************************)
EXTENDS Integers, Sequences, FiniteSets, TLC

VARIABLES
    \* ---- apis/price.ts: one direct run of tradeApi.pollOrderUntilComplete
    loop,            \* the run's local state (attempts, position, counters)
    responses,       \* the status responses delivered to it so far
    \* ---- components/Order.vue
    transactions,    \* ref<Transaction[]>
    totals,          \* totalBought, totalSold, netPosition, totalPnL as shown
    pollingOrders,   \* ref<Set<string>>
    calls,           \* the pollOrderStatus invocations suspended at an await
    lastExit,        \* the pollOrderStatus invocation that returned in the
                     \* handler that ran last, and by which path
    isAuthenticated, \* authStore.isAuthenticated
    isLoading,       \* ref(false)
    currentPage,     \* ref(0)
    hasMore,         \* ref(true)
    historyReq,      \* the getTradingHistory request in flight, or NoReq
    \* ---- apis/price.ts streamSymbol + views/HomeView.vue
    mounted,         \* a HomeView instance is mounted
    openStreams,     \* symbol -> number of EventSource objects that are open
    mounts,          \* number of times HomeView has been mounted
    ticks,           \* number of stream messages delivered so far
    changes,         \* number of updateStatus calls made so far
    now,             \* Date.now(), in ms since the view was mounted
    nextBeat,        \* time at which the setInterval callback is next due
    status,          \* tradingControlStore.controls: symbol -> status
    chartData,       \* ref<ChartData[]>   (spot)
    buyData,         \* ref<ChartData[]>   (gold96 buy)
    sellData,        \* ref<ChartData[]>   (gold96 sell)
    seriesData,      \* option.series[i].data, i = 0, 1, 2 (here 1, 2, 3)
    lastSpotPrice,   \* number | null
    lastBuyPrice,    \* number | null
    lastSellPrice,   \* number | null
    goldSpotPrice,   \* ref<SpotPrice | null> of the mounted view
    gold96Price,     \* ref<GoldTradePrice | null> of the mounted view
    lastOnline,      \* series -> the price of the last tick shown while ONLINE
    lastSource,      \* series -> the handler that appended its newest point
    \* ---- components/OrderModal.vue
    isOpen,          \* props.isOpen (showOrderModal of Order.vue)
    orderType,       \* ref<'buy' | 'sell'>
    amount,          \* ref(''): the text of the amount field
    amountError,     \* ref(''): the validation message, "" when there is none
    isSubmitting,    \* ref(false)
    balance,         \* ref<Portfolio | Balance | null>
    balanceFetches,  \* getPort requests in flight
    requests,        \* the buy/sell requests sent so far
    lastSubmit       \* what handleSubmit did, when it is the handler that ran last

loopVars  == <<loop, responses>>
orderVars == <<transactions, totals, pollingOrders, calls, lastExit,
               isAuthenticated,
               isLoading, currentPage, hasMore, historyReq>>
streamVars == <<mounted, openStreams, mounts, ticks, changes>>
chartVars == <<now, nextBeat, status, chartData, buyData, sellData, seriesData,
               lastSpotPrice, lastBuyPrice, lastSellPrice, goldSpotPrice,
               gold96Price, lastOnline, lastSource>>
modalVars == <<isOpen, orderType, amount, amountError, isSubmitting, balance,
               balanceFetches, requests, lastSubmit>>
vars == <<loopVars, orderVars, streamVars, chartVars, modalVars>>

(***************************************************************************)
(* Bounds of the model                                                     *)
(***************************************************************************)
MaxN == 4            \* largest maxAttempts given to a direct run of the loop
PollAttempts == 2    \* maxAttempts passed by pollOrderStatus (60 in the code)
MaxCalls == 3        \* pollOrderStatus invocations suspended at one time
MaxTx == 2           \* entries kept in the transactions list
pageSize == 1        \* entries per history page (50 in the code)
MaxPage == 2         \* largest value of currentPage
MaxMounts == 2       \* times HomeView is mounted in one behaviour
MaxTime == 2000      \* ms of wall-clock time in one behaviour
MaxTicks == 2        \* stream messages delivered in one behaviour
MaxChanges == 2      \* updateStatus calls in one behaviour
maxDataPoints == 2   \* capacity of each series (200 in the code)
MaxFetches == 2      \* getPort requests in flight at one time
MaxRequests == 1     \* buy/sell requests sent in one behaviour
MaxLedger == 3       \* entries of a transaction list the totals are taken of

Ids == {"o1", "o2"}
Status == {"pending", "processing", "completed", "failed"}
Terminal == {"completed", "failed"}

Max(a, b) == IF a >= b THEN a ELSE b
Min(a, b) == IF a <= b THEN a ELSE b

(***************************************************************************)
(* tradeApi.pollOrderUntilComplete, apis/price.ts 190-220.                 *)
(* A run is a record; pc is where the run is suspended:                    *)
(*   "get"   awaiting the GET /trading/poll/{id} response                  *)
(*   "sleep" awaiting the setTimeout(interval)                             *)
(*   "returned" / "threw"  finished; result is the status returned, or     *)
(*                         "timeout" / "error" for the exception thrown    *)
(* fetches and sleeps count the GETs issued and the timers started.        *)
(***************************************************************************)
NoLoop == [attempts |-> 0, max |-> 0, pc |-> "none", fetches |-> 0,
           sleeps |-> 0, result |-> "none"]

LoopHeadOffByOne(l) ==
    IF l.attempts <= l.max
    THEN [l EXCEPT !.pc = "get", !.fetches = @ + 1]
    ELSE [l EXCEPT !.pc = "threw", !.result = "timeout"]

\* the while condition (line 197) and what follows it: the next GET (199) or
\* the throw after the loop (219)
LoopHead(l) ==
    IF l.attempts < l.max
    THEN [l EXCEPT !.pc = "get", !.fetches = @ + 1]
    ELSE [l EXCEPT !.pc = "threw", !.result = "timeout"]

\* the call itself: attempts = 0 (195), then the loop head
LoopStart(n) == LoopHead([NoLoop EXCEPT !.max = n])

\* attempts++ (216) and back to the loop head
LoopAdvanceForgetsCount(l) == LoopHead(l)
LoopAdvance(l) == LoopHead([l EXCEPT !.attempts = @ + 1])

\* the GET resolves with a status (200-210)
LoopOnStatus(l, st) ==
    IF st \in Terminal
    THEN [l EXCEPT !.pc = "returned", !.result = st]
    ELSE IF l.attempts < l.max - 1
         THEN [l EXCEPT !.pc = "sleep", !.sleeps = @ + 1]
         ELSE LoopAdvance(l)

LoopOnErrorRetries(l) == LoopOnStatus(l, "pending")

\* the GET rejects: catch logs and rethrows (211-214)
LoopOnError(l) == [l EXCEPT !.pc = "threw", !.result = "error"]

\* the sleep timer fires (209 resolved), then attempts++ (216)
LoopOnTimer(l) == LoopAdvance(l)

(***************************************************************************)
(* A direct run of pollOrderUntilComplete(id, interval, n), n in 0..MaxN   *)
(***************************************************************************)
RunStatus(st) ==
    /\ loop.pc = "get"
    /\ loop' = LoopOnStatus(loop, st)
    /\ responses' = Append(responses, st)
    /\ UNCHANGED <<orderVars, streamVars, chartVars, modalVars>>

RunError ==
    /\ loop.pc = "get"
    /\ loop' = LoopOnError(loop)
    /\ responses' = Append(responses, "error")
    /\ UNCHANGED <<orderVars, streamVars, chartVars, modalVars>>

RunTimer ==
    /\ loop.pc = "sleep"
    /\ loop' = LoopOnTimer(loop)
    /\ UNCHANGED <<responses, orderVars, streamVars, chartVars, modalVars>>

(***************************************************************************)
(* JavaScript values                                                       *)
(***************************************************************************)
Null == -1     \* null in a number | null variable
NaN == -2      \* the number NaN

\* Price texts are sequences of characters.
Digits == {"0", "1", "2", "3"}
DigitValue(c) == CASE c = "0" -> 0 [] c = "1" -> 1 [] c = "2" -> 2 [] c = "3" -> 3

\* parseFloat on such a text: the number its longest prefix of digits
\* spells, NaN when it starts with no digit
RECURSIVE ParsePrefix(_, _, _)
ParsePrefix(txt, i, acc) ==
    IF i > Len(txt) \/ txt[i] \notin Digits THEN acc
    ELSE ParsePrefix(txt, i + 1, 10 * acc + DigitValue(txt[i]))

ParseFloat(txt) ==
    IF txt = <<>> \/ txt[1] \notin Digits THEN NaN ELSE ParsePrefix(txt, 1, 0)

\* A value of type any in a response body
Undefined == [kind |-> "undefined", num |-> 0, text |-> <<>>]
NullValue == [kind |-> "null", num |-> 0, text |-> <<>>]
Str(t) == [kind |-> "string", num |-> 0, text |-> t]
Num(n) == [kind |-> "number", num |-> n, text |-> <<>>]

(***************************************************************************)
(* components/Order.vue                                                    *)
(***************************************************************************)
NoReq == [active |-> FALSE, reset |-> FALSE, offset |-> 0]
NoExit == [id |-> "none", how |-> "none", details |-> 0]

\* a Transaction (12-23); symbol and timestamp play no part in what follows
Transaction(id, type, amt, price, total, st, fee) ==
    [id |-> id, type |-> type, amount |-> amt, price |-> price,
     total |-> total, status |-> st, fee |-> fee]

\* the entry of a buy of one unit at price one
Tx(id, st) == Transaction(id, "buy", 1, 1, 1, st, 0)

\* .filter((t) => t.type === type && t.status === 'completed') (96, 102)
IsCompletedBuy(t) == t.type = "buy" /\ t.status = "completed"
IsCompletedSell(t) == t.type = "sell" /\ t.status = "completed"

\* .reduce((sum, t) => sum + t.amount, 0) (97, 103)
RECURSIVE SumAmount(_)
SumAmount(txs) ==
    IF txs = <<>> THEN 0 ELSE txs[1].amount + SumAmount(Tail(txs))

\* .reduce((sum, t) => sum + t.total, 0) (114, 118)
RECURSIVE SumTotal(_)
SumTotal(txs) ==
    IF txs = <<>> THEN 0 ELSE txs[1].total + SumTotal(Tail(txs))

\* the computed totals (94-122)
TotalBoughtAnyStatus(txs) == SumAmount(SelectSeq(txs, LAMBDA t : t.type = "buy"))
TotalBought(txs) == SumAmount(SelectSeq(txs, IsCompletedBuy))
TotalSold(txs) == SumAmount(SelectSeq(txs, IsCompletedSell))
NetPosition(txs) == TotalBought(txs) - TotalSold(txs)
TotalPnLOfAmounts(txs) ==
    SumAmount(SelectSeq(txs, IsCompletedSell))
        - SumAmount(SelectSeq(txs, IsCompletedBuy))
TotalPnL(txs) ==
    SumTotal(SelectSeq(txs, IsCompletedSell))
        - SumTotal(SelectSeq(txs, IsCompletedBuy))
Totals(txs) ==
    [totalBought |-> TotalBought(txs), totalSold |-> TotalSold(txs),
     netPosition |-> NetPosition(txs), totalPnL |-> TotalPnL(txs)]

\* transactions.value.findIndex((t) => t.id === orderId); 0 stands for -1
FindIndex(txs, orderId) ==
    IF \E i \in 1..Len(txs) : txs[i].id = orderId
    THEN CHOOSE i \in 1..Len(txs) :
            /\ txs[i].id = orderId
            /\ \A j \in 1..(i - 1) : txs[j].id # orderId
    ELSE 0

\* the status the list shows for an order id, "none" when it has no entry
LocalStatus(txs, orderId) ==
    IF FindIndex(txs, orderId) = 0 THEN "none"
    ELSE txs[FindIndex(txs, orderId)].status

\* line 164: pollingOrders.value.has(orderId)
AlreadyPollingNever(po, orderId) == FALSE
AlreadyPolling(po, orderId) == orderId \in po

\* pollOrderStatus up to its first await (162-175).
\* s = [po, calls, txs, exit] carries pollingOrders, the suspended
\* invocations, the list and the last return through one handler.
PollOrderStatusReleasing(s, orderId) ==
    IF AlreadyPolling(s.po, orderId)
    THEN [s EXCEPT !.po = @ \ {orderId},
                   !.exit = [id |-> orderId, how |-> "duplicate",
                             details |-> 0]]
    ELSE [s EXCEPT !.po = @ \cup {orderId},
                   !.calls = Append(@, [id |-> orderId, pc |-> "poll",
                                        details |-> 0,
                                        loop |-> LoopStart(PollAttempts)])]
PollOrderStatus(s, orderId) ==
    IF AlreadyPolling(s.po, orderId)
    THEN [s EXCEPT !.exit = [id |-> orderId, how |-> "duplicate",
                             details |-> 0]]
    ELSE [s EXCEPT !.po = @ \cup {orderId},
                   !.calls = Append(@, [id |-> orderId, pc |-> "poll",
                                        details |-> 0,
                                        loop |-> LoopStart(PollAttempts)])]

\* startPollingProcessingOrders (240-246): forEach over transactions from i
RECURSIVE StartPollingFrom(_, _)
StartPollingFrom(s, i) ==
    IF i > Len(s.txs) THEN s
    ELSE IF s.txs[i].status = "processing" /\ s.txs[i].id \notin s.po
         THEN StartPollingFrom(PollOrderStatus(s, s.txs[i].id), i + 1)
         ELSE StartPollingFrom(s, i + 1)

\* the deep watcher on transactions (254-260)
StartPollingProcessingOrders(s) == StartPollingFrom(s, 1)

Here == [po |-> pollingOrders, calls |-> calls, txs |-> transactions,
         exit |-> NoExit]

\* a handler's result becomes the next state; runs are cut at the bounds
Commit(s) ==
    /\ Len(s.calls) <= MaxCalls
    /\ Len(s.txs) <= Max(MaxTx, Len(transactions))
    /\ pollingOrders' = s.po
    /\ calls' = s.calls
    /\ transactions' = s.txs
    /\ totals' = Totals(s.txs)
    /\ lastExit' = s.exit

orderRest == <<isAuthenticated, isLoading, currentPage, hasMore, historyReq>>
pollRest == <<pollingOrders, calls>>
others == <<loopVars, streamVars, chartVars, modalVars>>

\* handleTradeSuccess (138-159), then the watcher
HandleTradeSuccess(trade) ==
    /\ isAuthenticated
    /\ LET s1 == [Here EXCEPT !.txs = <<trade>> \o @]
           s2 == IF trade.status = "processing"
                 THEN PollOrderStatus(s1, trade.id) ELSE s1
       IN Commit(StartPollingProcessingOrders(s2))
    /\ UNCHANGED <<orderRest, others>>

Remove(q, c) == SubSeq(q, 1, c - 1) \o SubSeq(q, c + 1, Len(q))

\* the finally block (234-236)
ReleaseOnSuccess(po, orderId, how) ==
    IF how \in {"reconciled", "missing"} THEN po \ {orderId} ELSE po
Release(po, orderId, how) == po \ {orderId}

\* invocation c of pollOrderStatus returns by path how: the marker is
\* deleted, and if the list was written the watcher runs afterwards
FinishUnwatched(s, c, how, written) ==
    [s EXCEPT !.po = Release(@, s.calls[c].id, how),
              !.calls = Remove(@, c),
              !.exit = [id |-> s.calls[c].id, how |-> how,
                        details |-> s.calls[c].details]]
Finish(s, c, how, written) ==
    LET s1 == [s EXCEPT !.po = Release(@, s.calls[c].id, how),
                        !.calls = Remove(@, c),
                        !.exit = [id |-> s.calls[c].id, how |-> how,
                                  details |-> s.calls[c].details]]
    IN IF written THEN StartPollingProcessingOrders(s1) ELSE s1

\* the catch block (219-233)
CatchFailedLosesFields(s, c, how) ==
    LET i == FindIndex(s.txs, s.calls[c].id)
    IN IF i = 0 THEN Finish(s, c, how, FALSE)
       ELSE Finish([s EXCEPT !.txs[i] = Tx(s.calls[c].id, "failed")], c, how,
                   TRUE)
CatchFailed(s, c, how) ==
    LET i == FindIndex(s.txs, s.calls[c].id)
    IN IF i = 0 THEN Finish(s, c, how, FALSE)
       ELSE Finish([s EXCEPT !.txs[i].status = "failed"], c, how, TRUE)

\* what follows pollOrderUntilComplete settling with loop state l (171-179)
AfterLoop(s, c, l) ==
    LET s1 == [s EXCEPT !.calls[c].loop = l]
    IN CASE l.pc = "returned" -> [s1 EXCEPT !.calls[c].pc = "detail",
                                            !.calls[c].details = @ + 1]
         [] l.pc = "threw"    -> CatchFailed(s1, c, l.result)
         [] OTHER             -> s1

\* GET /trading/poll/{id} of invocation c resolves with status st
PollStatusResponse(c, st) ==
    /\ c \in 1..Len(calls)
    /\ calls[c].pc = "poll" /\ calls[c].loop.pc = "get"
    /\ Commit(AfterLoop(Here, c, LoopOnStatus(calls[c].loop, st)))
    /\ UNCHANGED <<orderRest, others>>

\* GET /trading/poll/{id} of invocation c rejects
PollStatusError(c) ==
    /\ c \in 1..Len(calls)
    /\ calls[c].pc = "poll" /\ calls[c].loop.pc = "get"
    /\ Commit(AfterLoop(Here, c, LoopOnError(calls[c].loop)))
    /\ UNCHANGED <<orderRest, others>>

\* the 3000 ms sleep of invocation c ends
PollTimer(c) ==
    /\ c \in 1..Len(calls)
    /\ calls[c].pc = "poll" /\ calls[c].loop.pc = "sleep"
    /\ Commit(AfterLoop(Here, c, LoopOnTimer(calls[c].loop)))
    /\ UNCHANGED <<orderRest, others>>

\* what getTradeById answers: the fields pollOrderStatus reads (195-205)
Detail(st, type, quantity, price_per_unit, total_amount, fee) ==
    [status |-> st, transaction_type |-> type, quantity |-> quantity,
     price_per_unit |-> price_per_unit, total_amount |-> total_amount,
     fee |-> fee]

\* a detail that carries a status and none of the other fields
PlainDetail(st) == Detail(st, "", Undefined, Undefined, Undefined, Undefined)

\* safeParseNumber (188-192)
SafeParseNumberUnchecked(value, fallback) ==
    IF value.kind \in {"null", "undefined"} \/ value = Str(<<>>) THEN fallback
    ELSE IF value.kind = "number" THEN value.num ELSE ParseFloat(value.text)
SafeParseNumber(value, fallback) ==
    IF value.kind \in {"null", "undefined"} \/ value = Str(<<>>) THEN fallback
    ELSE LET parsed == IF value.kind = "number" THEN value.num
                       ELSE ParseFloat(value.text)
         IN IF parsed = NaN THEN fallback ELSE parsed

\* updatedTransaction (194-213); "" is a transaction_type that is absent
UpdatedTransaction(current, detail) ==
    Transaction(current.id,
                IF detail.transaction_type # "" THEN detail.transaction_type
                ELSE current.type,
                SafeParseNumber(detail.quantity, current.amount),
                SafeParseNumber(detail.price_per_unit, current.price),
                SafeParseNumber(detail.total_amount, current.total),
                detail.status,
                SafeParseNumber(detail.fee, current.fee))

\* getTradeById of invocation c resolves with detail (179-218)
DetailResponse(c, detail) ==
    /\ c \in 1..Len(calls)
    /\ calls[c].pc = "detail"
    /\ LET i == FindIndex(transactions, calls[c].id)
       IN IF i = 0 THEN Commit(Finish(Here, c, "missing", FALSE))
          ELSE Commit(Finish([Here EXCEPT
                                 !.txs[i] = UpdatedTransaction(@, detail)],
                             c, "reconciled", TRUE))
    /\ UNCHANGED <<orderRest, others>>

\* getTradeById of invocation c rejects
DetailError(c) ==
    /\ c \in 1..Len(calls)
    /\ calls[c].pc = "detail"
    /\ Commit(CatchFailed(Here, c, "detailError"))
    /\ UNCHANGED <<orderRest, others>>

\* what GET /trading/history can answer: at most pageSize entries
HistoryPages ==
    { p \in UNION {[1..k -> {Tx(id, st) : id \in Ids, st \in Status}] :
                        k \in 0..pageSize} :
        \A i, j \in 1..Len(p) : i # j => p[i].id # p[j].id }

\* fetchTradingHistory up to its await (48-61)
FetchTradingHistoryWhileLoading(reset) ==
    IF ~isAuthenticated
    THEN /\ Commit(StartPollingProcessingOrders([Here EXCEPT !.txs = <<>>]))
         /\ UNCHANGED <<isLoading, currentPage, hasMore, historyReq>>
    ELSE IF ~hasMore /\ ~reset
    THEN /\ lastExit' = NoExit
         /\ UNCHANGED <<transactions, totals, pollRest, isLoading,
                        currentPage, hasMore, historyReq>>
    ELSE /\ isLoading' = TRUE
         /\ historyReq' = [active |-> TRUE, reset |-> reset,
                           offset |-> IF reset THEN 0 ELSE currentPage * pageSize]
         /\ lastExit' = NoExit
         /\ UNCHANGED <<transactions, totals, pollRest, currentPage, hasMore>>
FetchTradingHistory(reset) ==
    IF ~isAuthenticated
    THEN /\ Commit(StartPollingProcessingOrders([Here EXCEPT !.txs = <<>>]))
         /\ UNCHANGED <<isLoading, currentPage, hasMore, historyReq>>
    ELSE IF isLoading \/ (~hasMore /\ ~reset)
    THEN /\ lastExit' = NoExit
         /\ UNCHANGED <<transactions, totals, pollRest, isLoading,
                        currentPage, hasMore, historyReq>>
    ELSE /\ isLoading' = TRUE
         /\ historyReq' = [active |-> TRUE, reset |-> reset,
                           offset |-> IF reset THEN 0 ELSE currentPage * pageSize]
         /\ lastExit' = NoExit
         /\ UNCHANGED <<transactions, totals, pollRest, currentPage, hasMore>>

\* loadMore (84-86)
LoadMore ==
    /\ FetchTradingHistory(FALSE)
    /\ UNCHANGED <<isAuthenticated, others>>

\* refreshTransactions (89-91)
RefreshTransactions ==
    /\ FetchTradingHistory(TRUE)
    /\ UNCHANGED <<isAuthenticated, others>>

\* getTradingHistory resolves with page (63-73, 78-80), then the watcher
HistoryResponse(page) ==
    /\ historyReq.active
    /\ LET txs == IF historyReq.reset THEN page ELSE transactions \o page
       IN Commit(StartPollingProcessingOrders([Here EXCEPT !.txs = txs]))
    /\ currentPage' = (IF historyReq.reset THEN 0 ELSE currentPage) + 1
    /\ currentPage' <= MaxPage
    /\ hasMore' = (Len(page) = pageSize)
    /\ isLoading' = FALSE
    /\ historyReq' = NoReq
    /\ UNCHANGED <<isAuthenticated, others>>

\* getTradingHistory rejects (74-80)
HistoryError ==
    /\ historyReq.active
    /\ isLoading' = FALSE
    /\ historyReq' = NoReq
    /\ lastExit' = NoExit
    /\ UNCHANGED <<transactions, totals, pollRest, isAuthenticated, currentPage,
                   hasMore, others>>

\* authStore.isAuthenticated becomes true: watch (263-272) refetches
Login ==
    /\ ~isAuthenticated
    /\ isAuthenticated' = TRUE
    /\ IF isLoading
       THEN UNCHANGED <<isLoading, historyReq>>
       ELSE /\ isLoading' = TRUE
            /\ historyReq' = [active |-> TRUE, reset |-> TRUE, offset |-> 0]
    /\ lastExit' = NoExit
    /\ UNCHANGED <<transactions, totals, pollRest, currentPage, hasMore,
                   others>>

\* authStore.isAuthenticated becomes false: watch (263-272) empties the list
Logout ==
    /\ isAuthenticated
    /\ isAuthenticated' = FALSE
    /\ Commit(StartPollingProcessingOrders([Here EXCEPT !.txs = <<>>]))
    /\ UNCHANGED <<isLoading, currentPage, hasMore, historyReq, others>>

(***************************************************************************)
(* apis/price.ts usePrice.streamSymbol and views/HomeView.vue              *)
(***************************************************************************)
Symbols == {"spot", "gold96"}
AskedSymbols == Symbols \cup {"silver"}   \* updateStatus takes any string
TradingStatus == {"online", "pause", "stop"}
NullRef == [kind |-> "null"]   \* ref(null)

HeartbeatPeriod == 500      \* setInterval(..., 500)
StaleAfter == 1000          \* timestamp - lastDataPoint.x >= 1000
ClockStep == HeartbeatPeriod \div 2

\* .replace(/,/g, '')
IsNotComma(c) == c # ","
RemoveCommas(txt) == SelectSeq(txt, IsNotComma)

\* What a stream can send: event.data is JSON text of a tick, or text that
\* JSON.parse rejects.
\* A price is a string (price.ts 7, 14-15); a thousands separator may occur.
SpotTexts == {<<"1">>, <<"1", ",", "2">>}
Gold96Texts == {<<"2">>, <<"1", ",", "3">>}
Garbage == [json |-> FALSE, text |-> "garbage"]
SpotEvents == {[json |-> TRUE, price |-> t] : t \in SpotTexts} \cup {Garbage}
Gold96Events ==
    {[json |-> TRUE, buy_price |-> b, sell_price |-> <<"1">>] : b \in Gold96Texts}
        \cup {Garbage}

\* Messages that parse but are not the tick their stream promises: an
\* object with none of the price fields, and gold96 objects with only one
NoFields == [json |-> TRUE]
BuyOnly == [json |-> TRUE, buy_price |-> <<"2">>]
SellOnly == [json |-> TRUE, sell_price |-> <<"1">>]
FeedSpotEvents == SpotEvents \cup {NoFields}
FeedGold96Events == Gold96Events \cup {NoFields, BuyOnly, SellOnly}

\* stream.onmessage (price.ts 27-37): the value written to price.value is
\* the parsed object, or the raw string when JSON.parse throws
OnMessageDropping(event) ==
    IF event.json THEN [kind |-> "object", data |-> event] ELSE NullRef
OnMessage(event) ==
    IF event.json THEN [kind |-> "object", data |-> event]
    ELSE [kind |-> "string", data |-> event.text]

\* watch(ref, cb) (146, 180) runs cb when the ref's value changed: a parsed
\* object is a new object every time, a raw string may be the same string
Triggers(old, new) == new.kind = "object" \/ new # old

\* val && val.price / val && val.buy_price on a ref value
HasField(val, f) == val.kind = "object" /\ f \in DOMAIN val.data

\* getTradingStatus (45-48): a symbol without a control entry is online
getTradingStatus(symbol) ==
    IF symbol \in DOMAIN status THEN status[symbol] ELSE "online"

\* push, then shift when longer than maxDataPoints (167-177)
PushUnlimited(data, point) == Append(data, point)
PushLimited(data, point) ==
    LET pushed == Append(data, point)
    IN IF Len(pushed) > maxDataPoints THEN Tail(pushed) ELSE pushed

Point(x, y) == [x |-> x, y |-> y]

Return == [emit |-> FALSE]
Show(y) == [emit |-> TRUE, y |-> y]

\* parseFloat(val.f): NaN when the value has no field f
ParseField(val, f) ==
    IF HasField(val, f) THEN ParseFloat(val.data[f]) ELSE NaN

\* watch(goldSpotPrice) 146-159: the price to show, or the early return
SpotPriceToUseUnguarded(st, val) ==
    IF st = "stop" THEN Show(0)
    ELSE IF st = "pause" THEN Return
    ELSE IF val = NullRef THEN Return
    ELSE Show(ParseField(val, "price"))
SpotPausedAsOnline(st, val) ==
    IF st = "stop" THEN Show(0)
    ELSE IF ~HasField(val, "price") THEN Return
    ELSE Show(ParseFloat(RemoveCommas(val.data.price)))
SpotPriceToUse(st, val) ==
    IF st = "stop" THEN Show(0)
    ELSE IF st = "pause" THEN Return
    ELSE IF ~HasField(val, "price") THEN Return
    ELSE Show(ParseFloat(RemoveCommas(val.data.price)))

\* watch(gold96Price) 180-197: <<buy, sell>> to show, or the early return
Gold96PricesToUse(st, val) ==
    IF st = "stop" THEN Show(<<0, 0>>)
    ELSE IF st = "pause" THEN Return
    ELSE IF ~HasField(val, "buy_price") THEN Return
    ELSE Show(<<ParseFloat(val.data.buy_price), ParseField(val, "sell_price")>>)

viewRest == <<mounted, openStreams, mounts, changes, now, nextBeat, status>>
orderAndLoop == <<loopVars, orderVars, modalVars>>

\* a message on the mounted view's spot stream, then watch(goldSpotPrice)
\* (price.ts 27-37, HomeView.vue 146-178)
SpotTick(event) ==
    /\ mounted
    /\ ticks < MaxTicks
    /\ ticks' = ticks + 1
    /\ goldSpotPrice' = OnMessage(event)
    /\ LET st == getTradingStatus("spot")
           use == SpotPriceToUse(st, goldSpotPrice')
           priceToUse == use.y
       IN IF ~Triggers(goldSpotPrice, goldSpotPrice') \/ ~use.emit
          THEN UNCHANGED <<chartData, seriesData, lastSpotPrice, lastOnline,
                           lastSource>>
          ELSE /\ chartData' = PushLimited(chartData, Point(now, priceToUse))
               /\ lastSpotPrice' = priceToUse
               /\ seriesData' = [seriesData EXCEPT
                      ![1] = PushLimited(@, <<now, priceToUse>>)]
               /\ lastOnline' = IF st = "online"
                                THEN [lastOnline EXCEPT !.spot = priceToUse]
                                ELSE lastOnline
               /\ lastSource' = [lastSource EXCEPT !.spot = "tick"]
    /\ UNCHANGED <<buyData, sellData, lastBuyPrice, lastSellPrice, gold96Price,
                   viewRest, orderAndLoop>>

\* a message on the mounted view's gold96 stream, then watch(gold96Price)
\* (price.ts 27-37, HomeView.vue 180-230)
Gold96Tick(event) ==
    /\ mounted
    /\ ticks < MaxTicks
    /\ ticks' = ticks + 1
    /\ gold96Price' = OnMessage(event)
    /\ LET st == getTradingStatus("gold96")
           use == Gold96PricesToUse(st, gold96Price')
           prices == use.y
       IN IF ~Triggers(gold96Price, gold96Price') \/ ~use.emit
          THEN UNCHANGED <<buyData, sellData, seriesData, lastBuyPrice,
                           lastSellPrice, lastOnline, lastSource>>
          ELSE /\ buyData' = PushLimited(buyData, Point(now, prices[1]))
               /\ sellData' = PushLimited(sellData, Point(now, prices[2]))
               /\ lastBuyPrice' = prices[1]
               /\ lastSellPrice' = prices[2]
               /\ seriesData' = [seriesData EXCEPT
                      ![2] = PushLimited(@, <<now, prices[1]>>),
                      ![3] = PushLimited(@, <<now, prices[2]>>)]
               /\ lastOnline' = IF st = "online"
                                THEN [lastOnline EXCEPT !.buy = prices[1],
                                                        !.sell = prices[2]]
                                ELSE lastOnline
               /\ lastSource' = [lastSource EXCEPT !.buy = "tick",
                                                    !.sell = "tick"]
    /\ UNCHANGED <<chartData, lastSpotPrice, goldSpotPrice, viewRest,
                   orderAndLoop>>

\* the heartbeat's test for one series (250-252): a last price is known and
\* the newest point, if any, is at least StaleAfter old
BeatDueWhenever(last, data, timestamp) == last # Null
BeatDue(last, data, timestamp) ==
    /\ last # Null
    /\ (data = <<>> \/ timestamp - data[Len(data)].x >= StaleAfter)

\* the value the heartbeat appends (253-256)
BeatValueIgnoringStop(last, st) == last
BeatValue(last, st) == IF st = "stop" THEN 0 ELSE last

\* the setInterval callback (240-305)
Heartbeat ==
    /\ mounted
    /\ now >= nextBeat
    /\ nextBeat' = nextBeat + HeartbeatPeriod
    /\ LET spotStatus == getTradingStatus("spot")
           gold96Status == getTradingStatus("gold96")
           spotDue == BeatDue(lastSpotPrice, chartData, now)
           buyDue == BeatDue(lastBuyPrice, buyData, now)
           sellDue == BeatDue(lastSellPrice, sellData, now)
           spotY == BeatValue(lastSpotPrice, spotStatus)
           buyY == BeatValue(lastBuyPrice, gold96Status)
           sellY == BeatValue(lastSellPrice, gold96Status)
       IN /\ chartData' = IF spotDue THEN PushLimited(chartData, Point(now, spotY))
                          ELSE chartData
          /\ buyData' = IF buyDue THEN PushLimited(buyData, Point(now, buyY))
                        ELSE buyData
          /\ sellData' = IF sellDue THEN PushLimited(sellData, Point(now, sellY))
                         ELSE sellData
          /\ seriesData' =
                <<IF spotDue THEN PushLimited(seriesData[1], <<now, spotY>>)
                  ELSE seriesData[1],
                  IF buyDue THEN PushLimited(seriesData[2], <<now, buyY>>)
                  ELSE seriesData[2],
                  IF sellDue THEN PushLimited(seriesData[3], <<now, sellY>>)
                  ELSE seriesData[3]>>
          /\ lastSource' =
                [spot |-> IF spotDue THEN "heartbeat" ELSE lastSource.spot,
                 buy |-> IF buyDue THEN "heartbeat" ELSE lastSource.buy,
                 sell |-> IF sellDue THEN "heartbeat" ELSE lastSource.sell]
    /\ UNCHANGED <<mounted, openStreams, mounts, ticks, changes, now, status,
                   lastSpotPrice, lastBuyPrice, lastSellPrice, goldSpotPrice,
                   gold96Price, lastOnline, orderAndLoop>>

\* tradingControlStore.updateStatus (trading-control.ts 45-54); a call that
\* repeats the current status changes nothing and is left out; neither does
\* a call for a symbol that has no entry change anything
UpdateStatusReplaying(symbol, newStatus) ==
    /\ changes < MaxChanges
    /\ newStatus # status[symbol]
    /\ changes' = changes + 1
    /\ status' = [status EXCEPT ![symbol] = newStatus]
    /\ IF symbol = "spot" /\ newStatus = "online"
            /\ HasField(goldSpotPrice, "price")
       THEN LET y == ParseFloat(RemoveCommas(goldSpotPrice.data.price))
            IN /\ chartData' = PushLimited(chartData, Point(now, y))
               /\ seriesData' = [seriesData EXCEPT
                      ![1] = PushLimited(@, <<now, y>>)]
       ELSE UNCHANGED <<chartData, seriesData>>
    /\ UNCHANGED <<mounted, openStreams, mounts, ticks, now, nextBeat, buyData,
                   sellData, lastSpotPrice, lastBuyPrice, lastSellPrice,
                   goldSpotPrice, gold96Price, lastOnline, lastSource,
                   orderAndLoop>>
UpdateStatusOfAll(symbol, newStatus) ==
    /\ changes < MaxChanges
    /\ symbol \in DOMAIN status => newStatus # status[symbol]
    /\ changes' = changes + 1
    /\ status' = IF symbol \in DOMAIN status
                 THEN [s \in DOMAIN status |-> newStatus]
                 ELSE status
    /\ UNCHANGED <<mounted, openStreams, mounts, ticks, now, nextBeat, chartData,
                   buyData, sellData, seriesData, lastSpotPrice, lastBuyPrice,
                   lastSellPrice, goldSpotPrice, gold96Price, lastOnline,
                   lastSource,
                   orderAndLoop>>
UpdateStatus(symbol, newStatus) ==
    /\ changes < MaxChanges
    /\ symbol \in DOMAIN status => newStatus # status[symbol]
    /\ changes' = changes + 1
    /\ status' = IF symbol \in DOMAIN status
                 THEN [status EXCEPT ![symbol] = newStatus]
                 ELSE status
    /\ UNCHANGED <<mounted, openStreams, mounts, ticks, now, nextBeat, chartData,
                   buyData, sellData, seriesData, lastSpotPrice, lastBuyPrice,
                   lastSellPrice, goldSpotPrice, gold96Price, lastOnline,
                   lastSource,
                   orderAndLoop>>

\* streamSymbol (price.ts 25-38): a new EventSource for the symbol
streamSymbol(streams, symbol) == [streams EXCEPT ![symbol] = @ + 1]

\* the refs and locals of a HomeView instance as its setup leaves them
\* (35-53, 117-139)
FreshInstanceKeepingSeries ==
    /\ chartData' = <<>>
    /\ buyData' = <<>>
    /\ sellData' = <<>>
    /\ seriesData' = seriesData
    /\ lastSpotPrice' = Null
    /\ lastBuyPrice' = Null
    /\ lastSellPrice' = Null
    /\ goldSpotPrice' = NullRef
    /\ gold96Price' = NullRef
    /\ lastOnline' = [k \in {"spot", "buy", "sell"} |-> Null]
    /\ lastSource' = [k \in {"spot", "buy", "sell"} |-> "none"]
FreshInstance ==
    /\ chartData' = <<>>
    /\ buyData' = <<>>
    /\ sellData' = <<>>
    /\ seriesData' = <<<<>>, <<>>, <<>>>>
    /\ lastSpotPrice' = Null
    /\ lastBuyPrice' = Null
    /\ lastSellPrice' = Null
    /\ goldSpotPrice' = NullRef
    /\ gold96Price' = NullRef
    /\ lastOnline' = [k \in {"spot", "buy", "sell"} |-> Null]
    /\ lastSource' = [k \in {"spot", "buy", "sell"} |-> "none"]

\* a HomeView instance is set up and mounted (35-53, 235-306): fresh refs,
\* two streamSymbol calls and the interval
Mount ==
    /\ ~mounted
    /\ mounts < MaxMounts
    /\ mounted' = TRUE
    /\ mounts' = mounts + 1
    /\ openStreams' = streamSymbol(streamSymbol(openStreams, "gold96"), "spot")
    /\ nextBeat' = now + HeartbeatPeriod
    /\ FreshInstance
    /\ UNCHANGED <<ticks, changes, now, status, orderAndLoop>>

\* onUnmounted (308-310): clearInterval, nothing else; the streams stay open
\* and the instance, with its refs, watchers and locals, is discarded
Unmount ==
    /\ mounted
    /\ mounted' = FALSE
    /\ FreshInstance
    /\ UNCHANGED <<openStreams, mounts, ticks, changes, now, nextBeat, status,
                   orderAndLoop>>

\* the error event of one of the symbol's EventSource objects.  price.ts
\* 25-38 sets no onerror and never calls close(): the event reaches no code.
\* The EventSource itself either gives up (fatal) and is closed, or keeps the
\* object open and reconnects.
StreamError(symbol, fatal) ==
    /\ openStreams[symbol] > 0
    /\ ticks < MaxTicks
    /\ ticks' = ticks + 1
    /\ openStreams' = IF fatal THEN [openStreams EXCEPT ![symbol] = @ - 1]
                      ELSE openStreams
    /\ UNCHANGED <<mounted, mounts, changes, chartVars, orderAndLoop>>

\* time passes while a view is mounted (nothing reads the clock otherwise);
\* a due interval callback runs before the clock moves on
Advance ==
    /\ mounted
    /\ now < nextBeat
    /\ now + ClockStep <= MaxTime
    /\ now' = now + ClockStep
    /\ UNCHANGED <<mounted, openStreams, mounts, ticks, changes, nextBeat, status,
                   chartData, buyData, sellData, seriesData, lastSpotPrice, lastBuyPrice,
                   lastSellPrice, goldSpotPrice, gold96Price, lastOnline,
                   lastSource,
                   orderAndLoop>>

(***************************************************************************)
(* components/OrderModal.vue                                               *)
(***************************************************************************)
MinOrder == 1000        \* amountNum < 1000
MaxOrder == 1000000     \* amountNum > 1000000
OrderTypes == {"buy", "sell"}

\* Texts of the amount field: empty, not a number, zero, below the minimum,
\* the minimum, above it, above the maximum.
AmountTexts ==
    {<<>>, <<"x">>, <<"0">>, <<"3", "0", "0">>, <<"1", "0", "0", "0">>,
     <<"3", "0", "0", "0">>, <<"2", "0", "0", "0", "0", "0", "0">>}

\* What GET /trading/portfolio can answer (price.ts 81-102, 161-164): a
\* Portfolio, or the plain Balance shape the ref's type also admits.
BalanceAnswers ==
    {[balance |-> 2000, holdings |-> [gold96_baht |-> g]] : g \in {0, 1}}
        \cup {[available_balance |-> 2000, gold_holdings |-> 0]}

\* const { gold96Price } = usePrice() (24): a ref(null) of this component's
\* own usePrice() call (price.ts 20-23); the component never passes it to
\* streamSymbol, so nothing writes it
modalGold96Price == NullRef

\* currentMarketPrice (39-45)
CurrentMarketPriceQuoted(price) == [kind |-> "object", buy |-> 2, sell |-> 1]
CurrentMarketPrice(price) ==
    IF ~HasField(price, "buy_price") THEN NullRef
    ELSE [kind |-> "object", buy |-> ParseFloat(price.data.buy_price),
          sell |-> ParseFloat(price.data.sell_price)]

\* calculatedGoldAmount (47-53), the quotient kept as a fraction
CalculatedGoldAmount(amt, type, price) ==
    IF amt = <<>> \/ CurrentMarketPrice(price) = NullRef
    THEN [num |-> 0, den |-> 1]
    ELSE [num |-> ParseFloat(amt),
          den |-> IF type = "buy" THEN CurrentMarketPrice(price).buy
                  ELSE CurrentMarketPrice(price).sell]

\* goldToSell > goldAvailable on that fraction (den > 0)
Exceeds(q, g) == q.num > g * q.den

\* isFormValid (55-57)
IsFormValid(amt, err) ==
    amt # <<>> /\ err = "" /\ ParseFloat(amt) # NaN /\ ParseFloat(amt) > 0

\* the operands of the two balance checks (121-122, 131-134)
MaxAvailable(bal) ==
    IF "available_balance" \in DOMAIN bal THEN bal.available_balance
    ELSE bal.balance
GoldAvailable(bal) ==
    IF "gold_holdings" \in DOMAIN bal THEN bal.gold_holdings
    ELSE bal.holdings.gold96_baht

\* validateAmount (102-149): the message it leaves in amountError
ValidateAmountNoMinimum(amt, type, bal, price) ==
    LET amountNum == ParseFloat(amt) IN
    IF amt = <<>> THEN "Amount is required"
    ELSE IF amountNum = NaN \/ amountNum <= 0 THEN "Please enter a valid amount"
    ELSE IF type = "buy" /\ bal # NullRef /\ amountNum > MaxAvailable(bal)
         THEN "Insufficient balance"
    ELSE IF amountNum > MaxOrder THEN "Maximum order"
    ELSE ""
ValidateAmount(amt, type, bal, price) ==
    LET amountNum == ParseFloat(amt) IN
    IF amt = <<>> THEN "Amount is required"
    ELSE IF amountNum = NaN \/ amountNum <= 0 THEN "Please enter a valid amount"
    ELSE IF amountNum < MinOrder THEN "Minimum order"
    ELSE IF type = "buy" /\ bal # NullRef /\ amountNum > MaxAvailable(bal)
         THEN "Insufficient balance"
    ELSE IF type = "sell" /\ bal # NullRef
              /\ Exceeds(CalculatedGoldAmount(amt, type, price),
                         GoldAvailable(bal))
         THEN "Insufficient gold"
    ELSE IF amountNum > MaxOrder THEN "Maximum order"
    ELSE ""

NoSubmit == [ran |-> FALSE]
modalRest == <<loopVars, orderVars, streamVars, chartVars>>

\* resetForm (199-204) followed by the watcher on amount (82-84), which
\* runs validateAmount when the reset changed the amount
ResetForm ==
    /\ amount' = <<>>
    /\ amountError' = IF amount # <<>>
                      THEN ValidateAmount(<<>>, orderType, balance,
                                          modalGold96Price)
                      ELSE ""

\* fetchBalance up to its await (87-92)
FetchBalance ==
    IF isAuthenticated THEN balanceFetches' = balanceFetches + 1
    ELSE UNCHANGED balanceFetches

\* openOrderModal of Order.vue (125-132) and the watcher on props.isOpen
\* (66-74)
OpenModal ==
    /\ ~isOpen
    /\ isAuthenticated
    /\ balanceFetches < MaxFetches
    /\ isOpen' = TRUE
    /\ ResetForm
    /\ FetchBalance
    /\ lastSubmit' = NoSubmit
    /\ UNCHANGED <<orderType, isSubmitting, balance, requests, modalRest>>

\* closeModal (210-215) with closeOrderModal of Order.vue (134-136)
CloseModal ==
    /\ isOpen
    /\ ~isSubmitting
    /\ isOpen' = FALSE
    /\ ResetForm
    /\ lastSubmit' = NoSubmit
    /\ UNCHANGED <<orderType, isSubmitting, balance, balanceFetches, requests,
                   modalRest>>

\* the amount field changes: v-model, @input and the watcher on amount
\* (82-84) leave the message of validateAmount for the new text
SetAmount(amt) ==
    /\ isOpen
    /\ amt # amount
    /\ amount' = amt
    /\ amountError' = ValidateAmount(amt, orderType, balance, modalGold96Price)
    /\ lastSubmit' = NoSubmit
    /\ UNCHANGED <<isOpen, orderType, isSubmitting, balance, balanceFetches,
                   requests, modalRest>>

\* switchOrderType (217-220) and the watcher on orderType (77-79)
SwitchOrderType(type) ==
    /\ isOpen
    /\ orderType' = type
    /\ amountError' = ValidateAmount(amount, type, balance, modalGold96Price)
    /\ lastSubmit' = NoSubmit
    /\ UNCHANGED <<isOpen, amount, isSubmitting, balance, balanceFetches,
                   requests, modalRest>>

\* getPort answers (92, 96-98): no validation follows
BalanceResponse(answer) ==
    /\ balanceFetches > 0
    /\ balanceFetches' = balanceFetches - 1
    /\ balance' = answer
    /\ lastSubmit' = NoSubmit
    /\ UNCHANGED <<isOpen, orderType, amount, amountError, isSubmitting,
                   requests, modalRest>>

\* getPort fails (93-98): the balance stays what it was
BalanceError ==
    /\ balanceFetches > 0
    /\ balanceFetches' = balanceFetches - 1
    /\ lastSubmit' = NoSubmit
    /\ UNCHANGED <<isOpen, orderType, amount, amountError, isSubmitting,
                   balance, requests, modalRest>>

\* handleSubmit up to its await (152-172)
HandleSubmit ==
    /\ isOpen
    /\ Len(requests) < MaxRequests
    /\ LET send == /\ IsFormValid(amount, amountError)
                   /\ CurrentMarketPrice(modalGold96Price) # NullRef
       IN /\ lastSubmit' = [ran |-> TRUE, sent |-> send]
          /\ IF send
             THEN /\ isSubmitting' = TRUE
                  /\ requests' = Append(requests,
                        [type |-> orderType, amount |-> ParseFloat(amount),
                         balance |-> balance])
             ELSE UNCHANGED <<isSubmitting, requests>>
    /\ UNCHANGED <<isOpen, orderType, amount, amountError, balance,
                   balanceFetches, modalRest>>

(***************************************************************************)
(* Specifications                                                          *)
(***************************************************************************)
RunInit == /\ \E n \in 0..MaxN : loop = LoopStart(n)
           /\ responses = <<>>

IdleLoop == /\ loop = NoLoop
            /\ responses = <<>>

\* Order.vue after onMounted has called fetchTradingHistory(true) (249-251)
InitOrder ==
    /\ transactions = <<>>
    /\ totals = Totals(<<>>)
    /\ pollingOrders = {}
    /\ calls = <<>>
    /\ lastExit = NoExit
    /\ isAuthenticated \in BOOLEAN
    /\ isLoading = isAuthenticated
    /\ currentPage = 0
    /\ hasMore = TRUE
    /\ historyReq = IF isAuthenticated
                    THEN [active |-> TRUE, reset |-> TRUE, offset |-> 0]
                    ELSE NoReq

IdleOrder == InitOrder /\ ~isAuthenticated

\* Order.vue of a signed-in user once the history request has answered with
\* txs, a page shorter than the limit (63-73), and the watcher has run
Loaded(txs) ==
    LET s == StartPollingProcessingOrders(
                 [po |-> {}, calls |-> <<>>, txs |-> txs, exit |-> NoExit])
    IN /\ transactions = txs
       /\ totals = Totals(txs)
       /\ pollingOrders = s.po
       /\ calls = s.calls
       /\ lastExit = NoExit
       /\ isAuthenticated = TRUE
       /\ isLoading = FALSE
       /\ currentPage = 1
       /\ hasMore = FALSE
       /\ historyReq = NoReq

\* one order in processing, as the list holds it before it is reconciled
LocalOrders ==
    {Transaction("o1", type, amt, 1, 2, "processing", fee) :
        type \in {"buy", "sell"}, amt \in {1, 2}, fee \in {0, 1}}

\* what a field of the detail may hold
DetailValues ==
    {Undefined, NullValue, Str(<<>>), Str(<<"x">>), Str(<<"3">>),
     Str(<<"3", "x">>), Num(3), Num(0), Num(NaN)}
FewValues == {Str(<<"x">>), Num(3)}
Details ==
    {Detail(st, type, q, p, CHOOSE t \in FewValues : t # p, p) :
        st \in Status, type \in {"", "sell"}, q \in DetailValues,
        p \in FewValues}

\* the trades of the ledger: 100 bought for 200000, 40 sold for 90000,
\* 10 bought for 20000, each in any status
LedgerEntries ==
    {Transaction("o1", "buy", 100, 2000, 200000, st, 0) : st \in Status}
      \cup {Transaction("o2", "sell", 40, 2250, 90000, st, 0) : st \in Status}
      \cup {Transaction("o1", "buy", 10, 2000, 20000, st, 0) : st \in Status}
Ledgers == UNION {[1..k -> LedgerEntries] : k \in 0..MaxLedger}

InitView ==
    /\ mounted = FALSE
    /\ openStreams = [s \in Symbols |-> 0]
    /\ mounts = 0
    /\ ticks = 0
    /\ changes = 0
    /\ now = 0
    /\ nextBeat = 0
    /\ status = [s \in Symbols |-> "online"]
    /\ chartData = <<>>
    /\ buyData = <<>>
    /\ sellData = <<>>
    /\ seriesData = <<<<>>, <<>>, <<>>>>
    /\ lastSpotPrice = Null
    /\ lastBuyPrice = Null
    /\ lastSellPrice = Null
    /\ goldSpotPrice = NullRef
    /\ gold96Price = NullRef
    /\ lastOnline = [k \in {"spot", "buy", "sell"} |-> Null]
    /\ lastSource = [k \in {"spot", "buy", "sell"} |-> "none"]

\* a HomeView instance that has just been mounted (35-53, 235-306), two
\* heartbeat periods before the end of the time the model follows
MountedView ==
    /\ mounted = TRUE
    /\ openStreams = [s \in Symbols |-> 1]
    /\ mounts = 1
    /\ ticks = 0
    /\ changes = 0
    /\ now = MaxTime - 2 * HeartbeatPeriod
    /\ nextBeat = now + HeartbeatPeriod
    /\ status = [s \in Symbols |-> "online"]
    /\ chartData = <<>>
    /\ buyData = <<>>
    /\ sellData = <<>>
    /\ seriesData = <<<<>>, <<>>, <<>>>>
    /\ lastSpotPrice = Null
    /\ lastBuyPrice = Null
    /\ lastSellPrice = Null
    /\ goldSpotPrice = NullRef
    /\ gold96Price = NullRef
    /\ lastOnline = [k \in {"spot", "buy", "sell"} |-> Null]
    /\ lastSource = [k \in {"spot", "buy", "sell"} |-> "none"]

\* OrderModal.vue after setup (27-36), not opened yet
InitModal ==
    /\ isOpen = FALSE
    /\ orderType = "buy"
    /\ amount = <<>>
    /\ amountError = ""
    /\ isSubmitting = FALSE
    /\ balance = NullRef
    /\ balanceFetches = 0
    /\ requests = <<>>
    /\ lastSubmit = NoSubmit

NextLoop ==
    \/ \E st \in Status : RunStatus(st)
    \/ RunError
    \/ RunTimer

NextOrder ==
    \/ \E id \in Ids, st \in Status : HandleTradeSuccess(Tx(id, st))
    \/ \E c \in 1..MaxCalls, st \in Status : PollStatusResponse(c, st)
    \/ \E c \in 1..MaxCalls : PollStatusError(c)
    \/ \E c \in 1..MaxCalls : PollTimer(c)
    \/ \E c \in 1..MaxCalls, d \in Status : DetailResponse(c, PlainDetail(d))
    \/ \E c \in 1..MaxCalls : DetailError(c)
    \/ LoadMore
    \/ RefreshTransactions
    \/ \E page \in HistoryPages : HistoryResponse(page)
    \/ HistoryError
    \/ Login
    \/ Logout

\* the reconciliation of one order with what getTradeById answers
NextReconcile ==
    \/ \E c \in 1..MaxCalls, st \in Status : PollStatusResponse(c, st)
    \/ \E c \in 1..MaxCalls : PollStatusError(c)
    \/ \E c \in 1..MaxCalls : PollTimer(c)
    \/ \E c \in 1..MaxCalls, detail \in Details : DetailResponse(c, detail)
    \/ \E c \in 1..MaxCalls : DetailError(c)

\* a loaded list of trades, its totals, and what changes the list
NextLedger ==
    \/ \E trade \in LedgerEntries : HandleTradeSuccess(trade)
    \/ \E c \in 1..MaxCalls, st \in Status : PollStatusResponse(c, st)
    \/ \E c \in 1..MaxCalls : PollStatusError(c)
    \/ \E c \in 1..MaxCalls : PollTimer(c)
    \/ \E c \in 1..MaxCalls, d \in Status : DetailResponse(c, PlainDetail(d))
    \/ \E c \in 1..MaxCalls : DetailError(c)
    \/ Logout

NextModal ==
    \/ OpenModal
    \/ CloseModal
    \/ \E amt \in AmountTexts : SetAmount(amt)
    \/ \E type \in OrderTypes : SwitchOrderType(type)
    \/ \E answer \in BalanceAnswers : BalanceResponse(answer)
    \/ BalanceError
    \/ HandleSubmit

NextView ==
    \/ Mount
    \/ Unmount
    \/ Advance
    \/ Heartbeat
    \/ \E event \in SpotEvents : SpotTick(event)
    \/ \E event \in Gold96Events : Gold96Tick(event)
    \/ \E symbol \in Symbols, newStatus \in TradingStatus :
          UpdateStatus(symbol, newStatus)

\* the connections of the views and what becomes of them on an error
NextStream ==
    \/ Mount
    \/ Unmount
    \/ Advance
    \/ Heartbeat
    \/ \E symbol \in Symbols, fatal \in BOOLEAN : StreamError(symbol, fatal)

\* the control states next to everything that runs beside the operator: the
\* chart view with its ticks and heartbeat, and the polling of an order
NextControl ==
    \/ \E symbol \in AskedSymbols, newStatus \in TradingStatus :
          UpdateStatus(symbol, newStatus)
    \/ Advance
    \/ Heartbeat
    \/ \E event \in SpotEvents \ {Garbage} : SpotTick(event)
    \/ \E event \in Gold96Events \ {Garbage} : Gold96Tick(event)
    \/ \E c \in 1..MaxCalls, st \in Status : PollStatusResponse(c, st)
    \/ \E c \in 1..MaxCalls : PollStatusError(c)
    \/ \E c \in 1..MaxCalls : PollTimer(c)
    \/ \E c \in 1..MaxCalls, d \in Status : DetailResponse(c, PlainDetail(d))
    \/ \E c \in 1..MaxCalls : DetailError(c)

\* a direct run of tradeApi.pollOrderUntilComplete
InitLoop == RunInit /\ IdleOrder /\ InitView /\ InitModal
SpecLoop == InitLoop /\ [][NextLoop]_vars

\* the Order component
InitOrderSpec == IdleLoop /\ InitOrder /\ InitView /\ InitModal
SpecOrder == InitOrderSpec /\ [][NextOrder]_vars

\* one order being polled and reconciled
InitReconcile ==
    /\ IdleLoop
    /\ \E tx \in LocalOrders : Loaded(<<tx>>)
    /\ InitView
    /\ InitModal
SpecReconcile == InitReconcile /\ [][NextReconcile]_vars

\* the totals of a list of trades
InitLedger ==
    /\ IdleLoop
    /\ \E txs \in Ledgers : Loaded(txs)
    /\ InitView
    /\ InitModal
SpecLedger == InitLedger /\ [][NextLedger]_vars

\* every request made for an order is answered or fails in the end, and
\* every sleep ends
StatusAnswers(id) ==
    \E c \in 1..MaxCalls :
       /\ c \in 1..Len(calls) /\ calls[c].id = id
       /\ \/ \E st \in Status : PollStatusResponse(c, st)
          \/ PollStatusError(c)
SleepEnds(id) ==
    \E c \in 1..MaxCalls :
       c \in 1..Len(calls) /\ calls[c].id = id /\ PollTimer(c)
DetailAnswers(id) ==
    \E c \in 1..MaxCalls :
       /\ c \in 1..Len(calls) /\ calls[c].id = id
       /\ \/ \E d \in Status : DetailResponse(c, PlainDetail(d))
          \/ DetailError(c)
\* two orders being polled
NextPolling ==
    \/ \E c \in 1..MaxCalls, st \in Status : PollStatusResponse(c, st)
    \/ \E c \in 1..MaxCalls : PollStatusError(c)
    \/ \E c \in 1..MaxCalls : PollTimer(c)
    \/ \E c \in 1..MaxCalls, d \in Status : DetailResponse(c, PlainDetail(d))
    \/ \E c \in 1..MaxCalls : DetailError(c)
InitPolling ==
    /\ IdleLoop
    /\ Loaded(<<Tx("o1", "processing"), Tx("o2", "processing")>>)
    /\ InitView
    /\ InitModal
SpecPolling == InitPolling /\ [][NextPolling]_vars
FairPolling ==
    /\ SpecPolling
    /\ \A id \in Ids : /\ WF_vars(StatusAnswers(id))
                       /\ WF_vars(SleepEnds(id))
                       /\ WF_vars(DetailAnswers(id))

\* the chart view with its streams, watchers and heartbeat
InitViewSpec == IdleLoop /\ IdleOrder /\ InitView /\ InitModal
SpecView == InitViewSpec /\ [][NextView]_vars

\* the streams of the chart views
InitStream == IdleLoop /\ IdleOrder /\ InitView /\ InitModal
SpecStream == InitStream /\ [][NextStream]_vars

\* the control store, the chart view and one order being polled
InitControl ==
    /\ IdleLoop
    /\ Loaded(<<Tx("o1", "processing")>>)
    /\ MountedView
    /\ InitModal
SpecControl == InitControl /\ [][NextControl]_vars

\* a mounted chart view and every kind of message its streams can deliver
NextFeed ==
    \/ \E event \in FeedSpotEvents : SpotTick(event)
    \/ \E event \in FeedGold96Events : Gold96Tick(event)
    \/ \E symbol \in Symbols, newStatus \in TradingStatus :
          UpdateStatus(symbol, newStatus)
    \/ Advance
    \/ Heartbeat
InitFeed == IdleLoop /\ IdleOrder /\ MountedView /\ InitModal
SpecFeed == InitFeed /\ [][NextFeed]_vars

\* the order form of a signed-in user
InitModalSpec ==
    IdleLoop /\ InitOrder /\ isAuthenticated /\ InitView /\ InitModal
SpecModal == InitModalSpec /\ [][NextModal]_vars
\* the same, with a user who does submit a form that can be submitted
FairModal == SpecModal /\ WF_vars(HandleSubmit)

(***************************************************************************)
(* Properties of the order polling (Order.vue, apis/price.ts)              *)
(***************************************************************************)
CallsFor(id) == {c \in 1..Len(calls) : calls[c].id = id}
ExitPaths == {"reconciled", "missing", "timeout", "error", "detailError"}

\* C1: for every order id at most one pollOrderStatus invocation is
\* suspended in its poll loop at any time, so at most one status request for
\* the id is in flight and its attempts follow one another.
OneLoopPerOrder ==
    \A id \in Ids :
        /\ Cardinality(CallsFor(id)) <= 1
        /\ Cardinality({c \in CallsFor(id) : calls[c].loop.pc = "get"}) <= 1

\* both ids are being polled and a repeated call for one of them was
\* turned away in the handler that just ran
WitnessOneLoopPerOrder ==
    /\ lastExit.how = "duplicate"
    /\ pollingOrders = Ids
    /\ Len(calls) = 2

\* C2: the marker of an order id is in pollingOrders exactly while an
\* invocation for it is suspended: every exit path deletes it, and an
\* invocation found for the id right after an exit is a freshly started loop.
MarkerReleasedOnEveryExit ==
    /\ pollingOrders = {calls[c].id : c \in 1..Len(calls)}
    /\ lastExit.how \in ExitPaths =>
          \A c \in CallsFor(lastExit.id) :
              calls[c] = [id |-> lastExit.id, pc |-> "poll", details |-> 0,
                          loop |-> LoopStart(PollAttempts)]

\* a loop timed out, its marker is gone, the list shows the order as failed
WitnessMarkerReleased ==
    /\ lastExit.how = "timeout"
    /\ lastExit.id \notin pollingOrders
    /\ LocalStatus(transactions, lastExit.id) = "failed"

\* every exit path is taken somewhere (each of these is reachable)
ExitReconciledThenRestarted ==
    /\ lastExit.how = "reconciled"
    /\ CallsFor(lastExit.id) # {}
ExitMissing == lastExit.how = "missing" /\ lastExit.id \notin pollingOrders
ExitError == lastExit.how = "error" /\ lastExit.id \notin pollingOrders
ExitDetailError ==
    lastExit.how = "detailError" /\ lastExit.id \notin pollingOrders

\* position of the first terminal response, 0 when there is none
FirstTerminal(rs) ==
    IF \E i \in 1..Len(rs) : rs[i] \in Terminal
    THEN CHOOSE i \in 1..Len(rs) :
            /\ rs[i] \in Terminal
            /\ \A j \in 1..(i - 1) : rs[j] \notin Terminal
    ELSE 0

NoTransportError == \A i \in 1..Len(responses) : responses[i] # "error"

\* C3 as stated: min(n, k) fetches; on a terminal response k the run
\* returns it with no further fetch or sleep; with no terminal response
\* among the first n it throws the timeout after n fetches and n - 1 sleeps.
ExactlyNFetchesAndNMinusOneSleeps ==
    /\ (loop.pc = "returned" /\ NoTransportError) =>
          /\ loop.fetches = FirstTerminal(responses)
          /\ loop.fetches = Len(responses)
          /\ loop.fetches <= loop.max
          /\ loop.result = responses[Len(responses)]
          /\ loop.sleeps = loop.fetches - 1
    /\ (loop.pc = "threw" /\ loop.result = "timeout") =>
          /\ FirstTerminal(responses) = 0
          /\ loop.fetches = loop.max
          /\ Len(responses) = loop.max
          /\ loop.sleeps = loop.max - 1

\* C3 amended: the same, with Max(n - 1, 0) sleeps before the timeout
ExactlyNFetches ==
    /\ (loop.pc = "returned" /\ NoTransportError) =>
          /\ loop.fetches = FirstTerminal(responses)
          /\ loop.fetches = Len(responses)
          /\ loop.fetches <= loop.max
          /\ loop.result = responses[Len(responses)]
          /\ loop.sleeps = loop.fetches - 1
    /\ (loop.pc = "threw" /\ loop.result = "timeout") =>
          /\ FirstTerminal(responses) = 0
          /\ loop.fetches = loop.max
          /\ Len(responses) = loop.max
          /\ loop.sleeps = Max(loop.max - 1, 0)

\* maxAttempts = 2 and an order that never settles: timeout after 2 fetches
WitnessExactlyNFetches ==
    /\ loop.max = 2
    /\ loop.pc = "threw" /\ loop.result = "timeout"
    /\ loop.fetches = 2 /\ loop.sleeps = 1

\* C4: a status fetch that fails is the last thing the run does: no fetch
\* and no sleep follows it, and the run ends by throwing that error.
TransportErrorAborts ==
    \A i \in 1..Len(responses) :
        responses[i] = "error" =>
            /\ i = Len(responses)
            /\ loop.pc = "threw" /\ loop.result = "error"
            /\ loop.fetches = i
            /\ loop.sleeps = i - 1

\* the second fetch of a run failed after one sleep
WitnessTransportErrorAborts ==
    /\ Len(responses) = 2
    /\ responses[2] = "error"
    /\ loop.result = "error"

Last(data) == data[Len(data)]
Grew(old, new) == new # old /\ new # <<>>

\* C6: for every symbol at most one streaming connection is open at any
\* time, over every sequence of mounts and unmounts of the chart view.
AtMostOneConnectionPerSymbol ==
    \A symbol \in Symbols : openStreams[symbol] <= 1

Fresh(data) == data = <<>> \/ now - Last(data).x <= StaleAfter

\* C7: while the view is mounted, a series that has received a point never
\* stalls: its newest point is never older than one interval of 1 s.
SeriesNeverStalls ==
    mounted => Fresh(chartData) /\ Fresh(buyData) /\ Fresh(sellData)

\* C8: ticks handled while a symbol is stopped leave its last-known price
\* alone, so a point the heartbeat appends while the symbol is online again
\* carries the price of the last tick handled online.
HeartbeatAfterStopCarriesLastOnlinePrice ==
    [][Heartbeat =>
          /\ (status.spot = "online" /\ lastOnline.spot # Null
                  /\ Grew(chartData, chartData')
                => Last(chartData').y = lastOnline.spot)
          /\ (status.gold96 = "online" /\ lastOnline.buy # Null
                  /\ Grew(buyData, buyData')
                => Last(buyData').y = lastOnline.buy)
          /\ (status.gold96 = "online" /\ lastOnline.sell # Null
                  /\ Grew(sellData, sellData')
                => Last(sellData').y = lastOnline.sell)]_vars

\* C9: every point appended to a series of a symbol while the symbol is
\* stopped, by a tick or by the heartbeat, has value zero, in the series and
\* in the chart's copy of it.
StoppedPointsAreZero ==
    [][mounted /\ mounted' =>
          /\ (status.spot = "stop" /\ Grew(chartData, chartData')
                => Last(chartData').y = 0 /\ Last(seriesData'[1])[2] = 0)
          /\ (status.gold96 = "stop" /\ Grew(buyData, buyData')
                => Last(buyData').y = 0 /\ Last(seriesData'[2])[2] = 0)
          /\ (status.gold96 = "stop" /\ Grew(sellData, sellData')
                => Last(sellData').y = 0 /\ Last(seriesData'[3])[2] = 0)]_vars

\* spot is stopped with a price above zero still remembered, and the newest
\* point, which the heartbeat appended, shows zero
WitnessStoppedPointsAreZero ==
    /\ mounted
    /\ status.spot = "stop"
    /\ lastSpotPrice > 0
    /\ chartData # <<>>
    /\ Last(chartData).y = 0

\* C10: a tick handled while its symbol is paused appends no point to any
\* series of the symbol and leaves the last-known prices unchanged.
PausedTickChangesNothing ==
    [][/\ ((\E event \in SpotEvents : SpotTick(event)) /\ status.spot = "pause"
             => UNCHANGED <<chartData, seriesData, lastSpotPrice>>)
       /\ ((\E event \in Gold96Events : Gold96Tick(event))
                /\ status.gold96 = "pause"
             => UNCHANGED <<buyData, sellData, seriesData, lastBuyPrice,
                            lastSellPrice>>)]_vars

\* spot is paused and the tick the stream delivered last carries a price
\* other than the remembered one, which is a price shown while online
WitnessPausedTickChangesNothing ==
    /\ mounted
    /\ status.spot = "pause"
    /\ lastSpotPrice > 0
    /\ HasField(goldSpotPrice, "price")
    /\ ParseFloat(RemoveCommas(goldSpotPrice.data.price)) # lastSpotPrice
    /\ chartData # <<>>
    /\ Last(chartData).y = lastSpotPrice

\* C11: every point appended to a series of a symbol while the symbol is
\* paused carries the price of the last tick handled online before the
\* pause, whatever ticks arrive during the pause.
PausedPointsCarryLastOnlinePrice ==
    [][mounted /\ mounted' =>
          /\ (status.spot = "pause" /\ Grew(chartData, chartData')
                => lastOnline.spot # Null
                   /\ Last(chartData').y = lastOnline.spot)
          /\ (status.gold96 = "pause" /\ Grew(buyData, buyData')
                => lastOnline.buy # Null
                   /\ Last(buyData').y = lastOnline.buy)
          /\ (status.gold96 = "pause" /\ Grew(sellData, sellData')
                => lastOnline.sell # Null
                   /\ Last(sellData').y = lastOnline.sell)]_vars

\* the decimal a price text of the feed denotes
PriceOf(txt) ==
    CASE txt = <<"1">> -> 1
      [] txt = <<"2">> -> 2
      [] txt = <<"1", ",", "2">> -> 12
      [] txt = <<"1", ",", "3">> -> 13

\* C12: a well-formed tick handled while its symbol is online appends
\* exactly one point with the tick's price to each series of the symbol and
\* makes that price the last-known one.
OnlineTickShowsItsPrice ==
    [][/\ \A event \in SpotEvents :
              event.json /\ status.spot = "online" /\ SpotTick(event)
           => /\ chartData' =
                     PushLimited(chartData, Point(now, PriceOf(event.price)))
              /\ lastSpotPrice' = PriceOf(event.price)
       /\ \A event \in Gold96Events :
              event.json /\ status.gold96 = "online" /\ Gold96Tick(event)
           => /\ buyData' =
                     PushLimited(buyData, Point(now, PriceOf(event.buy_price)))
              /\ sellData' =
                     PushLimited(sellData, Point(now, PriceOf(event.sell_price)))
              /\ lastBuyPrice' = PriceOf(event.buy_price)
              /\ lastSellPrice' = PriceOf(event.sell_price)]_vars

BeatAppendIsDue(last, data, new, st) ==
    Grew(data, new) =>
        /\ last # Null
        /\ data # <<>>
        /\ now - Last(data).x >= StaleAfter
        /\ st \in {"online", "pause"} => Last(new).y = last

\* C13: the heartbeat appends to a series only when a last-known price
\* exists and the newest point of the series is at least 1000 ms old, and
\* what it appends while the symbol is online or paused is that price.
HeartbeatAppendsOnlyWhenStale ==
    [][Heartbeat =>
          /\ BeatAppendIsDue(lastSpotPrice, chartData, chartData', status.spot)
          /\ BeatAppendIsDue(lastBuyPrice, buyData, buyData', status.gold96)
          /\ BeatAppendIsDue(lastSellPrice, sellData, sellData',
                             status.gold96)]_vars

\* one spot tick was handled and the heartbeat has added a second point,
\* at least 1000 ms later, with the remembered price while spot is paused
WitnessHeartbeatAppendsOnlyWhenStale ==
    /\ mounted
    /\ ticks = 1
    /\ status.spot = "pause"
    /\ lastSpotPrice > 0
    /\ Len(chartData) = 2
    /\ chartData[2].x - chartData[1].x >= StaleAfter
    /\ chartData[2].y = lastSpotPrice

OncePerInterval(data, new) ==
    Grew(data, new) /\ data # <<>> => now - Last(data).x = StaleAfter

\* C14: while no tick arrives for a symbol whose last price is known, each
\* of its series grows by exactly one point per interval: every point the
\* heartbeat appends comes one interval after the point before it, neither
\* sooner (two points in an interval) nor later (an interval without one).
TickFreeSeriesGrowsOncePerInterval ==
    [][Heartbeat =>
          /\ OncePerInterval(chartData, chartData')
          /\ OncePerInterval(buyData, buyData')
          /\ OncePerInterval(sellData, sellData')]_vars

\* the two newest points of a series have one timestamp
TwoAtOneInstant(data) ==
    Len(data) >= 2 /\ data[Len(data)].x = data[Len(data) - 1].x

\* C15: a series never receives a heartbeat point and a tick point for the
\* same instant: a tick handler never appends a point with the timestamp of
\* the point the heartbeat has just appended, nor the heartbeat one with the
\* timestamp of a tick's point.
NoHeartbeatAndTickPointAtOneInstant ==
    [][/\ (lastSource.spot # "none" /\ lastSource'.spot # lastSource.spot
             => ~TwoAtOneInstant(chartData'))
       /\ (lastSource.buy # "none" /\ lastSource'.buy # lastSource.buy
             => ~TwoAtOneInstant(buyData'))
       /\ (lastSource.sell # "none" /\ lastSource'.sell # lastSource.sell
             => ~TwoAtOneInstant(sellData'))]_vars

\* the last n elements of a sequence
LastPoints(seq, n) == SubSeq(seq, Max(1, Len(seq) - n + 1), Len(seq))

FifoStep(data, new) ==
    /\ Len(new) <= maxDataPoints
    /\ new # data => new = LastPoints(Append(data, Last(new)), maxDataPoints)

\* C16: after every handler each series, and the chart's copy of it, holds
\* at most maxDataPoints points and is the last maxDataPoints points of the
\* series before the handler followed by the appended point.
SeriesIsFifoOfCapacity ==
    [][mounted /\ mounted' =>
          /\ FifoStep(chartData, chartData')
          /\ FifoStep(buyData, buyData')
          /\ FifoStep(sellData, sellData')
          /\ \A i \in 1..3 : FifoStep(seriesData[i], seriesData'[i])]_vars

\* the spot series is full of zero points of the heartbeat and the point of
\* the only tick handled, whose price is still remembered, has been evicted
WitnessSeriesIsFifoOfCapacity ==
    /\ mounted
    /\ ticks = 1
    /\ lastSpotPrice > 0
    /\ Len(chartData) = maxDataPoints
    /\ \A i \in 1..Len(chartData) : chartData[i].y = 0

(***************************************************************************)
(* Properties of order submission (OrderModal.vue, Order.vue)              *)
(***************************************************************************)
\* C20: every accepted order whose returned status is not terminal
\* ('pending' or 'processing') enters the in-flight set: when
\* handleTradeSuccess has run, its id is in pollingOrders and a poll loop for
\* it is suspended.
NonTerminalOrderIsPolled ==
    [][\A id \in Ids, st \in Status \ Terminal :
          HandleTradeSuccess(Tx(id, st))
            => /\ id \in pollingOrders'
               /\ \E c \in 1..Len(calls') : calls'[c].id = id]_vars

\* the number an amount text denotes
AmountOf(amt) ==
    CASE amt = <<"0">> -> 0
      [] amt = <<"3", "0", "0">> -> 300
      [] amt = <<"1", "0", "0", "0">> -> 1000
      [] amt = <<"3", "0", "0", "0">> -> 3000
      [] amt = <<"2", "0", "0", "0", "0", "0", "0">> -> 2000000

IsNumber(amt) == amt \notin {<<>>, <<"x">>}

\* empty, not a number, not above 0, below the minimum or above the maximum
InvalidAmount(amt) ==
    ~IsNumber(amt) \/ AmountOf(amt) <= 0 \/ AmountOf(amt) < 1000
        \/ AmountOf(amt) > 1000000

\* C17: a submission whose amount is empty, not a number, not above 0,
\* below 1,000 or above 1,000,000 finds the form invalid and sends no
\* buy/sell request.
InvalidAmountSendsNothing ==
    [][HandleSubmit /\ InvalidAmount(amount) =>
          /\ ~IsFormValid(amount, amountError)
          /\ ~lastSubmit'.sent
          /\ requests' = requests]_vars

\* handleSubmit has just run on the amount 300, which validateAmount had
\* refused as below the minimum, and nothing was sent
WitnessInvalidAmountSendsNothing ==
    /\ lastSubmit.ran
    /\ ~lastSubmit.sent
    /\ amount = <<"3", "0", "0">>
    /\ amountError = "Minimum order"
    /\ requests = <<>>

NumberOf(value) ==
    CASE value = Str(<<"3">>)      -> 3
      [] value = Str(<<"3", "x">>) -> 3
      [] value = Num(3)            -> 3
      [] value = Num(0)            -> 0
      [] OTHER                     -> -1

Reconciled(old, value, new) ==
    /\ new # NaN
    /\ new = IF NumberOf(value) >= 0 THEN NumberOf(value) ELSE old

\* C21: when the poll loop of an order has ended in a terminal status and
\* the detail answers, that was the one detail request of the invocation,
\* and each of amount, price, total and fee of the local entry becomes the
\* number the detail's value parses to, or stays what it was when the value
\* parses to none; none of them becomes NaN.
DetailReconcilesNumbers ==
    [][\A c \in 1..Len(calls) :
          (calls[c].pc = "detail" /\ FindIndex(transactions, calls[c].id) # 0)
            => LET i == FindIndex(transactions, calls[c].id)
                   old == transactions[i]
                   new == transactions'[i]
               IN \A detail \in Details :
                     (/\ new = UpdatedTransaction(old, detail)
                      /\ DetailResponse(c, detail))
                       => /\ lastExit' = [id |-> calls[c].id,
                                          how |-> "reconciled", details |-> 1]
                          /\ calls[c].loop.result \in Terminal
                          /\ Reconciled(old.amount, detail.quantity,
                                        new.amount)
                          /\ Reconciled(old.price, detail.price_per_unit,
                                        new.price)
                          /\ Reconciled(old.total, detail.total_amount,
                                        new.total)
                          /\ Reconciled(old.fee, detail.fee, new.fee)]_vars

\* an order has been reconciled: its amount is the detail's 3, its price
\* the local 1 that the detail's unparsable price left alone
WitnessDetailReconcilesNumbers ==
    /\ lastExit.how = "reconciled"
    /\ lastExit.details = 1
    /\ \E i \in 1..Len(transactions) :
          /\ transactions[i].id = lastExit.id
          /\ transactions[i].amount = 3
          /\ transactions[i].price = 1

(***************************************************************************)
(* Properties of the streams (apis/price.ts)                               *)
(***************************************************************************)
\* what a message leaves in the price ref: the parsed tick, or the raw text
Forwarded(event, value) ==
    IF event.json THEN value.kind = "object" /\ value.data = event
    ELSE value.kind = "string" /\ value.data = event.text

\* C22: a message that fails to parse leaves its raw payload in the price
\* value, and a well-formed message is parsed and forwarded whatever came
\* before it on the connection; after a parse failure the next well-formed
\* spot tick of an ONLINE symbol is shown on the chart.
MalformedMessageIsForwardedRaw ==
    [][/\ \A event \in SpotEvents :
             SpotTick(event) =>
                /\ Forwarded(event, goldSpotPrice')
                /\ (goldSpotPrice.kind = "string" /\ event.json
                      /\ status["spot"] = "online")
                     => /\ Grew(chartData, chartData')
                        /\ Last(chartData').y = PriceOf(event.price)
       /\ \A event \in Gold96Events :
             Gold96Tick(event) => Forwarded(event, gold96Price')]_vars

\* two spot ticks reached one ONLINE view: the first left no point, so it
\* was the malformed one, the second was parsed and is the only point
WitnessMalformedMessageIsForwardedRaw ==
    /\ mounts = 1 /\ changes = 0 /\ ticks = 2
    /\ gold96Price = NullRef
    /\ goldSpotPrice.kind = "object"
    /\ Len(chartData) = 1
    /\ lastSource["spot"] = "tick"

\* C23: after a connection error on a symbol's stream the broken connection
\* is no longer one of the symbol's connections, the next subscription
\* opens a fresh one, and the error itself opens none (no retry by the
\* component).
BrokenConnectionIsDropped ==
    [][/\ \A symbol \in Symbols, fatal \in BOOLEAN :
             StreamError(symbol, fatal)
                => openStreams'[symbol] = openStreams[symbol] - 1
       /\ Mount => \A symbol \in Symbols :
                      openStreams'[symbol] = openStreams[symbol] + 1]_vars

\* the indices of the completed entries of one type
CompletedAt(txs, type) ==
    {i \in 1..Len(txs) : txs[i].type = type /\ txs[i].status = "completed"}

\* the sums of amount and of total over the entries at the indices I
RECURSIVE AmountAt(_, _)
AmountAt(txs, I) ==
    IF I = {} THEN 0
    ELSE LET i == CHOOSE j \in I : TRUE
         IN txs[i].amount + AmountAt(txs, I \ {i})

RECURSIVE TotalAt(_, _)
TotalAt(txs, I) ==
    IF I = {} THEN 0
    ELSE LET i == CHOOSE j \in I : TRUE
         IN txs[i].total + TotalAt(txs, I \ {i})

\* C24: totalBought is the sum of amount over the completed buys, totalSold
\* the sum over the completed sells, netPosition their difference; entries
\* in any other status count nowhere and the empty list gives zero.
TotalsAreSumsOverCompleted ==
    /\ totals.totalBought = AmountAt(transactions, CompletedAt(transactions, "buy"))
    /\ totals.totalSold = AmountAt(transactions, CompletedAt(transactions, "sell"))
    /\ totals.netPosition = totals.totalBought - totals.totalSold
    /\ transactions = <<>> =>
          /\ totals.totalBought = 0
          /\ totals.totalSold = 0
          /\ totals.netPosition = 0

\* the BUY 100 has just been reconciled as completed, next to a completed
\* SELL 40 and a pending BUY 10: 100, 40 and 60
WitnessTotalsAreSumsOverCompleted ==
    /\ lastExit.how = "reconciled"
    /\ Len(transactions) = 3
    /\ transactions[1].type = "buy" /\ transactions[1].amount = 100
    /\ transactions[1].status = "completed"
    /\ transactions[2].type = "sell" /\ transactions[2].amount = 40
    /\ transactions[2].status = "completed"
    /\ transactions[3].type = "buy" /\ transactions[3].amount = 10
    /\ transactions[3].status = "pending"
    /\ totals.totalBought = 100
    /\ totals.totalSold = 40
    /\ totals.netPosition = 60

\* txs without the entries at the indices D, from index i on
RECURSIVE Without(_, _, _)
Without(txs, D, i) ==
    IF i > Len(txs) THEN <<>>
    ELSE (IF i \in D THEN <<>> ELSE <<txs[i]>>) \o Without(txs, D, i + 1)

NotCompletedAt(txs) == {i \in 1..Len(txs) : txs[i].status # "completed"}

\* new is old with one entry added, some entries removed or some entries
\* changed, none of which is completed before or after
OnlyNonCompletedDiffer(old, new) ==
    \/ \E t \in LedgerEntries : t.status # "completed" /\ new = <<t>> \o old
    \/ \E D \in SUBSET NotCompletedAt(old) : new = Without(old, D, 1)
    \/ /\ Len(new) = Len(old)
       /\ \A i \in 1..Len(old) :
             new[i] # old[i] => /\ old[i].status # "completed"
                                /\ new[i].status # "completed"

\* C25: totalPnL is the sum of total over the completed sells minus the sum
\* over the completed buys, and a step that adds, removes or changes only
\* entries that are not completed leaves it as it was.
TotalPnLIsSellsMinusBuys ==
    [][/\ totals.totalPnL = TotalAt(transactions, CompletedAt(transactions, "sell"))
                             - TotalAt(transactions, CompletedAt(transactions, "buy"))
       /\ totals'.totalPnL = TotalAt(transactions', CompletedAt(transactions', "sell"))
                             - TotalAt(transactions', CompletedAt(transactions', "buy"))
       /\ OnlyNonCompletedDiffer(transactions, transactions')
             => totals'.totalPnL = totals.totalPnL]_vars

\* polling of the BUY 10 has just ended with an error and marked it failed,
\* next to a completed BUY 100 and a completed SELL 40: 90000 - 200000
WitnessTotalPnLIsSellsMinusBuys ==
    /\ lastExit.how \in {"timeout", "error", "detailError"}
    /\ Len(transactions) = 3
    /\ transactions[1].amount = 10 /\ transactions[1].status = "failed"
    /\ transactions[2].amount = 100 /\ transactions[2].status = "completed"
    /\ transactions[3].amount = 40 /\ transactions[3].status = "completed"
    /\ totals.totalPnL = 90000 - 200000

(***************************************************************************)
(* Properties of the control states (trading-control.ts, HomeView.vue)     *)
(***************************************************************************)
\* a point appended to an ONLINE series in a step that delivers no tick is
\* the heartbeat's, and shows zero or the price of the last tick shown
\* while ONLINE: never the price of a tick that was passed over
NoReplay(st, data, new, shown) ==
    (st = "online" /\ ticks' = ticks /\ Grew(data, new))
        => Heartbeat /\ Last(new).y \in {0, shown}

\* C26: a change of a symbol's control state to ONLINE appends no point,
\* and afterwards only ticks and heartbeats do: the price of a tick that
\* arrived while the symbol was PAUSED or STOPPED is never appended later.
ResumeReplaysNothing ==
    [][/\ \A symbol \in Symbols :
             UpdateStatus(symbol, "online")
                => UNCHANGED <<chartData, buyData, sellData, seriesData>>
       /\ NoReplay(status.spot, chartData, chartData', lastOnline.spot)
       /\ NoReplay(status.gold96, buyData, buyData', lastOnline.buy)
       /\ NoReplay(status.gold96, sellData, sellData', lastOnline.sell)]_vars

\* spot showed 1 while ONLINE, was paused, passed over a tick of 1,2 and is
\* ONLINE again; the newest point is the heartbeat's and shows 1
WitnessResumeReplaysNothing ==
    /\ status.spot = "online" /\ changes = 2
    /\ HasField(goldSpotPrice, "price")
    /\ goldSpotPrice.data.price = <<"1", ",", "2">>
    /\ lastOnline.spot = 1
    /\ lastSource.spot = "heartbeat"
    /\ Last(chartData).y = 1

\* C28: every control state is ONLINE until updateStatus is called;
\* updateStatus(symbol, s) makes s the state of that symbol and of no other,
\* and changes no state when the symbol has no entry; a symbol without an
\* entry reads as ONLINE; and no step but a call of updateStatus, be it a
\* tick, a heartbeat or a step of the polling, changes a control state.
ControlStateChangesOnlyByOperator ==
    [][/\ changes = 0 => \A symbol \in Symbols : status[symbol] = "online"
       /\ \A symbol \in AskedSymbols, s \in TradingStatus :
             UpdateStatus(symbol, s) =>
                /\ symbol \in Symbols => status'[symbol] = s
                /\ \A other \in Symbols \ {symbol} :
                      status'[other] = status[other]
                /\ symbol \notin Symbols => status' = status
       /\ getTradingStatus("silver") = "online"
       /\ status' # status =>
             \E symbol \in Symbols, s \in TradingStatus :
                UpdateStatus(symbol, s)]_vars

\* the operator has paused spot with one call; since then two ticks have
\* arrived and the polling of the order has ended, and gold96 is still ONLINE
WitnessControlStateChangesOnlyByOperator ==
    /\ changes = 1
    /\ status.spot = "pause"
    /\ status.gold96 = "online"
    /\ ticks = 2
    /\ lastExit.how = "reconciled"
    /\ now = MaxTime

TerminalStatusComesFromRemote ==
    [][\A id \in Ids :
          (/\ lastExit'.id = id /\ lastExit'.how \in ExitPaths
           /\ LocalStatus(transactions', id) \in Terminal
           /\ LocalStatus(transactions', id) # LocalStatus(transactions, id))
             => \E c \in 1..Len(calls), d \in Terminal :
                   /\ calls[c].id = id
                   /\ DetailResponse(c, PlainDetail(d))
                   /\ LocalStatus(transactions', id) = d]_vars

\* the exits of pollOrderStatus through its catch block
ErrorExits == {"timeout", "error", "detailError"}

\* C30: when an invocation of pollOrderStatus ends with an error (timeout,
\* transport error, failed detail request), the first entry with its id, if
\* there is one, has status 'failed' and is otherwise as before, every other
\* entry is as before, and the invocation has returned: it is no longer
\* suspended and its marker is deleted, unless the watcher has started a new
\* loop for another entry with the id.
PollErrorMarksOrderFailed ==
    [][lastExit'.how \in ErrorExits =>
          LET id == lastExit'.id
              i == FindIndex(transactions, id)
          IN /\ Len(transactions') = Len(transactions)
             /\ \A j \in 1..Len(transactions) :
                   transactions'[j] =
                      IF j = i THEN [transactions[j] EXCEPT !.status = "failed"]
                      ELSE transactions[j]
             /\ \A c \in 1..Len(calls') :
                   calls'[c].id = id =>
                      /\ calls'[c].loop = LoopStart(PollAttempts)
                      /\ \E j \in 1..Len(transactions') :
                            /\ transactions'[j].id = id
                            /\ transactions'[j].status = "processing"]_vars

\* polling of the BUY 10 ended with a timeout: the entry is failed and still
\* a buy of 10 for 20000, and the completed SELL 40 below it is untouched
WitnessPollErrorMarksOrderFailed ==
    /\ lastExit.how = "timeout"
    /\ Len(transactions) = 2
    /\ transactions[1] = Transaction("o1", "buy", 10, 2000, 20000, "failed", 0)
    /\ transactions[2] =
          Transaction("o2", "sell", 40, 2250, 90000, "completed", 0)


\* C31: a pollOrderStatus call that returns early because the id is being
\* polled leaves the marker and the running invocation as they are; the
\* marker of an id goes only in a step in which its invocation returns by
\* one of its own exit paths, so every further call made while the loop
\* runs is turned away as well.
MarkerSurvivesDuplicateCalls ==
    [][\A id \in Ids :
          /\ (id \in pollingOrders /\ id \notin pollingOrders') =>
                (lastExit'.id = id /\ lastExit'.how \in ExitPaths)
          /\ (lastExit'.id = id /\ lastExit'.how = "duplicate") =>
                /\ id \in pollingOrders
                /\ id \in pollingOrders'
                /\ calls' = calls]_vars

\* a call was turned away while the loop of its id, already past a sleep,
\* waits for its second status answer, and the list holds the id twice
WitnessMarkerSurvivesDuplicateCalls ==
    /\ lastExit.how = "duplicate"
    /\ lastExit.id \in pollingOrders
    /\ \E c \in CallsFor(lastExit.id) :
          calls[c].loop.fetches = 2 /\ calls[c].loop.pc = "get"
    /\ Len(transactions) = 2
    /\ \A i \in 1..2 : transactions[i].id = lastExit.id


\* C32: between handlers, every entry of the list whose status is
\* 'processing' has its id in pollingOrders and an invocation suspended in
\* its poll loop, however the entry came to be there.
ProcessingOrdersArePolled ==
    \A i \in 1..Len(transactions) :
        transactions[i].status = "processing" =>
            /\ transactions[i].id \in pollingOrders
            /\ CallsFor(transactions[i].id) # {}

\* two pages have been loaded, both orders of the list are 'processing',
\* one of them left so by the reconciliation that just ended, and both are
\* being polled
WitnessProcessingOrdersArePolled ==
    /\ lastExit.how = "reconciled"
    /\ currentPage = 2
    /\ Len(transactions) = 2
    /\ transactions[1].id # transactions[2].id
    /\ \A i \in 1..2 : transactions[i].status = "processing"
    /\ pollingOrders = Ids


(***************************************************************************)
(* Properties of the order form's request (OrderModal.vue)                 *)
(***************************************************************************)
\* C33: an open form whose amount passes every validation rule leads to a
\* state in which the buy/sell request has been sent, unless the form is
\* closed or its amount made invalid first: the market price the form reads
\* becomes available, so submitting is not disabled for good.
ValidFormLeadsToRequest ==
    (isOpen /\ IsFormValid(amount, amountError))
        ~> (requests # <<>> \/ ~isOpen \/ ~IsFormValid(amount, amountError))

(***************************************************************************)
(* Properties of the trading history (Order.vue)                           *)
(***************************************************************************)
\* C35: while the user is not authenticated the transactions list is
\* empty, also when a history request that was sent while authenticated
\* is answered after the logout.
LoggedOutListIsEmpty == ~isAuthenticated => transactions = <<>>

\* C36: no two entries of the transactions list share an id, whatever
\* refreshes, further pages and new trades have built the list.
NoTwoEntriesShareAnId ==
    \A i, j \in 1..Len(transactions) :
        i # j => transactions[i].id # transactions[j].id


\* C37: at most one trading-history request is in flight.  isLoading is
\* true exactly while a request is unanswered; a fetch asked for while it
\* is true (loadMore, refresh, or the fetch of a login) sends nothing and
\* changes nothing; a request in flight is never replaced, it only ends,
\* and when it ends, answered or failed, isLoading is false again.
historyState == <<transactions, totals, pollingOrders, calls, isLoading,
                  currentPage, hasMore, historyReq>>
MalformedEvents == {Garbage, NoFields}
seriesState == <<chartData, buyData, sellData, seriesData, lastSpotPrice,
                 lastBuyPrice, lastSellPrice>>

\* C38: a message that is a raw string, or an object with none of the
\* price fields, handled while its symbol is ONLINE, appends to no series
\* and leaves the last-known prices as they were.
MalformedTickAppendsNothing ==
    [][\A event \in MalformedEvents :
          /\ (getTradingStatus("spot") = "online" /\ SpotTick(event))
                => UNCHANGED seriesState
          /\ (getTradingStatus("gold96") = "online" /\ Gold96Tick(event))
                => UNCHANGED seriesState]_vars

\* gold96 stayed ONLINE, its first message was a tick with the buy price 2
\* and its second an object without price fields: one point, last price 2
WitnessMalformedTickAppendsNothing ==
    /\ ticks = 2
    /\ changes = 0
    /\ gold96Price = OnMessage(NoFields)
    /\ Len(buyData) = 1
    /\ buyData[1].y = 2
    /\ lastBuyPrice = 2
    /\ lastSource.buy = "tick"


\* the chart series holds the points of the data array, in its order
Mirrors(series, data) ==
    /\ Len(series) = Len(data)
    /\ \A i \in 1..Len(data) : series[i] = <<data[i].x, data[i].y>>

\* C39: between handlers each data array and its chart series hold the
\* same points in the same order (chartData and series[0], buyData and
\* series[1], sellData and series[2]), and the gold96 buy and sell arrays
\* have the same length and the same timestamps, point by point.
SeriesMirrorTheData ==
    /\ Mirrors(seriesData[1], chartData)
    /\ Mirrors(seriesData[2], buyData)
    /\ Mirrors(seriesData[3], sellData)
    /\ Len(buyData) = Len(sellData)
    /\ \A i \in 1..Len(buyData) : buyData[i].x = sellData[i].x

\* after a spot tick and a gold96 tick the heartbeat has filled all three
\* arrays, evicting from the gold96 ones
WitnessSeriesMirrorTheData ==
    /\ mounted
    /\ ticks = 2
    /\ Len(chartData) = maxDataPoints
    /\ Len(buyData) = maxDataPoints
    /\ \A i \in 1..Len(buyData) : buyData[i].x > 0
    /\ lastSource.buy = "heartbeat"
    /\ lastSource.spot = "heartbeat"

====
